---- MODULE Spec2Model ----
(***************************************************************************)
(* Knob-Generator: the parametric knob geometry pipeline and the viewer    *)
(* that displays its result.                                               *)
(*                                                                         *)
(* The repository holds several revisions of the same modules side by      *)
(* side.  The geometry engine exists in three revisions:                   *)
(*   "csg"   src/js/knobGeometry.js lines 278-497 (three-csgmesh booleans) *)
(*   "merge" src/js/knobGeometry.js lines   1-276 (buffer concatenation)   *)
(*   "stub"  src/unnamed/part_000                 (subtract is a stub)     *)
(* and a fourth revision builds the knob inside the viewer itself:         *)
(*   "inline" src/unnamed/part_002 (KnobGenerator.updateKnob)              *)
(* The revision is fixed at start-up and never changes.                    *)
(*                                                                         *)
(* A geometry is kept as the expression that produced it: a primitive      *)
(* (cylinder, box, sphere) with the transform applied to it, or an         *)
(* operation node (union, subtract, merge, add) over two geometries.  Its  *)
(* meaning (which points it encloses, how many boundary edges it has) is   *)
(* computed from the expression by Inside and OpenEdges.  The library      *)
(* calls (THREE.*Geometry, CSG.union, CSG.subtract) are taken to do what   *)
(* their names say, and CSG.fromMesh to honour the mesh's position and     *)
(* rotation.                                                               *)
(*                                                                         *)
(* Three specifications share the variables.  Spec runs the builds of      *)
(* createKnobGeometry call by call, SpecSubtract applies the subtraction   *)
(* of each revision twice, and SpecPage runs the page: start-up, the       *)
(* listeners of the controls, the animation loop and the STL export, with  *)
(* "page" holding what the document and the browser know.                  *)
(***************************************************************************)
EXTENDS Integers, Sequences, FiniteSets, TLC

VARIABLES variant, params, pc, build, knobMesh, scene, page

vars == <<variant, params, pc, build, knobMesh, scene, page>>

(***************************************************************************)
(* Units and trigonometry.  Lengths are integers, Scale units to the       *)
(* millimetre; angles are integers, Turn steps to the full turn; sines and *)
(* cosines are scaled by Trig.                                             *)
(***************************************************************************)
\* 1/1200 mm: every product and quotient the code forms stays integral
Scale == 12 * 100

Trig == 10 * 1000

\* four quarter turns of 25 steps (3.6 degrees a step)
Turn == 4 * 25

SinQ == <<0, 628, 1253, 1874, 2487, 3090, 3681, 4258, 4818, 5358, 5878, 6374,
          6845, 7290, 7705, 8090, 8443, 8763, 9048, 9298, 9511, 9686, 9823,
          9921, 9980, 10000>>

\* Math.sin of the angle 2*pi*k/Turn, scaled by Trig
Sin(k) ==
    LET a == k % Turn
        q == Turn \div 4
    IN  IF a <= q THEN SinQ[a + 1]
        ELSE IF a <= 2 * q THEN SinQ[2 * q - a + 1]
        ELSE IF a <= 3 * q THEN 0 - SinQ[a - 2 * q + 1]
        ELSE 0 - SinQ[4 * q - a + 1]

\* Math.cos of the angle 2*pi*k/Turn, scaled by Trig
Cos(k) == Sin(k + Turn \div 4)

\* (i / count) * Math.PI * 2
AngleOf(i, count) == (i * Turn) \div count

\* Math.atan2(z, x) of a point at angle k: the same angle, modulo a turn
Atan2(k) == k % Turn

Abs(n) == IF n < 0 THEN 0 - n ELSE n

(***************************************************************************)
(* Transforms: world = RotY(rot) * local + t.                              *)
(* THREE's rotation about Y maps (x, z) to (c x + s z, -s x + c z).        *)
(***************************************************************************)
Identity == [rot |-> 0, t |-> <<0, 0, 0>>]

RotY(k, v) ==
    << (Cos(k) * v[1] + Sin(k) * v[3]) \div Trig,
       v[2],
       (Cos(k) * v[3] - Sin(k) * v[1]) \div Trig >>

\* Matrix4.makeTranslation: the matrix becomes a pure translation
makeTranslation(m, x, y, z) == [rot |-> 0, t |-> <<x, y, z>>]

\* Matrix4.makeRotationY: the matrix becomes a pure rotation (every other
\* entry, the translation included, is reset)
makeRotationY(m, k) == [rot |-> k % Turn, t |-> <<0, 0, 0>>]

\* Object3D.matrix composed from position and rotation.y
MeshMatrix(position, rotationY) == [rot |-> rotationY % Turn, t |-> position]

\* the product outer * inner
Compose(outer, inner) ==
    LET r == RotY(outer.rot, inner.t)
    IN  [rot |-> (outer.rot + inner.rot) % Turn,
         t |-> <<r[1] + outer.t[1], r[2] + outer.t[2], r[3] + outer.t[3]>>]

(***************************************************************************)
(* Primitives.  Sizes are full extents in units.                           *)
(***************************************************************************)
\* new THREE.CylinderGeometry(radius, radius, height, radialSegments, 1, false)
CylinderGeometry(radius, height, radialSegments) ==
    [kind |-> "cylinder", radius |-> radius, height |-> height,
     segs |-> radialSegments, m |-> Identity]

\* new THREE.BoxGeometry(width, height, depth)
BoxGeometry(width, height, depth) ==
    [kind |-> "box", w |-> width, h |-> height, d |-> depth, m |-> Identity]

\* new THREE.SphereGeometry(radius, ws, hs, 0, 2*pi, 0, pi/2): the upper half of
\* the sphere surface only; its rim at the equator is left open
SphereGeometry(radius, widthSegments, heightSegments) ==
    [kind |-> "sphere", radius |-> radius, ws |-> widthSegments,
     hs |-> heightSegments, m |-> Identity]

IsPrimitive(g) == g.kind \in {"cylinder", "box", "sphere"}

\* the value of a variable that was never assigned / a switch that fell through
Undefined == [kind |-> "undefined"]

\* new THREE.Geometry(): a geometry without vertices
EmptyGeometry == [kind |-> "empty"]

IsNothing(g) == g.kind \in {"undefined", "empty"}

RECURSIVE applyMatrix4(_, _)
\* BufferGeometry.applyMatrix4 / the mesh matrix applied by CSG.fromMesh
applyMatrix4(g, mat) ==
    IF IsNothing(g) THEN g
    ELSE IF IsPrimitive(g) THEN [g EXCEPT !.m = Compose(mat, g.m)]
    ELSE [g EXCEPT !.a = applyMatrix4(g.a, mat),
                   !.bs = [j \in DOMAIN g.bs |-> applyMatrix4(g.bs[j], mat)]]

\* BufferGeometry.translate(x, y, z)
translate(g, x, y, z) == applyMatrix4(g, [rot |-> 0, t |-> <<x, y, z>>])

\* BufferGeometry.rotateY(angle)
rotateY(g, k) == applyMatrix4(g, [rot |-> k % Turn, t |-> <<0, 0, 0>>])

(***************************************************************************)
(* Operation nodes.  A node holds its first operand a and the operands bs  *)
(* combined with it one after the other, from left to right:               *)
(* ((a op bs[1]) op bs[2]) op ...                                          *)
(***************************************************************************)
\* CSG.fromMesh(a).union(CSG.fromMesh(b)) back to a mesh, for each b of bs in turn
CsgUnionAll(a, bs) == [kind |-> "union", a |-> a, bs |-> bs]

\* a subtraction that keeps what is in exactly one of the two solids
CsgSymmetricDifference(a, b) ==
    [kind |-> "union",
     a |-> [kind |-> "subtract", a |-> a, bs |-> <<b>>],
     bs |-> <<[kind |-> "subtract", a |-> b, bs |-> <<a>>]>>]

\* CSG.fromMesh(a).subtract(CSG.fromMesh(b)) back to a mesh
CsgSubtract(a, b) == [kind |-> "subtract", a |-> a, bs |-> <<b>>]

\* the vertex and index buffers of each b of bs appended to those of a
ConcatAll(a, bs) == [kind |-> "merge", a |-> a, bs |-> bs]

\* Object3D.add: each b of bs becomes a child object of a in the scene graph
AddChildren(a, bs) == [kind |-> "add", a |-> a, bs |-> bs]

(***************************************************************************)
(* Meaning of a geometry.                                                  *)
(***************************************************************************)
\* the point p = <<x, y, z>> in the local frame of a primitive, rotation
\* scaled by Trig on x and z
LocalOf(p, m) ==
    LET dx == p[1] - m.t[1]
        dz == p[3] - m.t[3]
    IN  << Cos(m.rot) * dx - Sin(m.rot) * dz,
           p[2] - m.t[2],
           Sin(m.rot) * dx + Cos(m.rot) * dz >>

InsidePrimitive(p, g) ==
    LET dx == p[1] - g.m.t[1]
        dy == p[2] - g.m.t[2]
        dz == p[3] - g.m.t[3]
    IN  CASE g.kind = "cylinder" ->
                /\ 2 * Abs(dy) < g.height
                /\ Abs(dx) < g.radius
                /\ Abs(dz) < g.radius
                /\ dx * dx + dz * dz < g.radius * g.radius
          [] g.kind = "box" ->
                LET l == LocalOf(p, g.m)
                IN  /\ 2 * Abs(l[1]) < g.w * Trig
                    /\ 2 * Abs(l[2]) < g.h
                    /\ 2 * Abs(l[3]) < g.d * Trig
          [] g.kind = "sphere" ->
                /\ dy > 0
                /\ Abs(dx) < g.radius
                /\ Abs(dy) < g.radius
                /\ Abs(dz) < g.radius
                /\ dx * dx + dy * dy + dz * dz < g.radius * g.radius

RECURSIVE Inside(_, _)
\* does the geometry enclose the point p
Inside(p, g) ==
    CASE IsNothing(g) -> FALSE
      [] IsPrimitive(g) -> InsidePrimitive(p, g)
      [] g.kind = "subtract" ->
            Inside(p, g.a) /\ \A j \in DOMAIN g.bs : ~Inside(p, g.bs[j])
      [] OTHER -> Inside(p, g.a) \/ \E j \in DOMAIN g.bs : Inside(p, g.bs[j])

RECURSIVE SumSeq(_)
SumSeq(ns) == IF ns = <<>> THEN 0 ELSE ns[1] + SumSeq(Tail(ns))

RECURSIVE OpenEdges(_)
\* the number of edges of the mesh that border one triangle only
OpenEdges(g) ==
    CASE IsNothing(g) -> 0
      [] g.kind = "sphere" -> g.ws
      [] IsPrimitive(g) -> 0
      [] OTHER -> OpenEdges(g.a) + SumSeq([j \in DOMAIN g.bs |-> OpenEdges(g.bs[j])])

RECURSIVE Shells(_)
\* the number of separate surfaces laid side by side in the buffers (or in the
\* scene graph): a boolean operation yields one surface, a concatenation keeps
\* the surfaces of both operands
Shells(g) ==
    CASE IsNothing(g) -> 0
      [] IsPrimitive(g) -> 1
      [] g.kind \in {"union", "subtract"} -> 1
      [] OTHER -> Shells(g.a) + SumSeq([j \in DOMAIN g.bs |-> Shells(g.bs[j])])

(***************************************************************************)
(* Parameters.                                                             *)
(***************************************************************************)
\* KnobGenerator's default parameters (millimetres)
DefaultParams ==
    [knobDia |-> 35, knobHeight |-> 14, shaftType |-> 0, shaftDia |-> 6,
     outerRidged |-> TRUE, noOfOuterRidges |-> 50, makeTopIndent |-> TRUE]

ParamKeys == DOMAIN DefaultParams

\* a second knob height the builds are tried with, next to the default
SmallKnobHeight == 5

\* a shaft diameter just below the smallest knob diameter
NearShaftDia == 9

\* The values a caller of updateParams may supply for each key: the defaults,
\* values the controls of the page can produce (knobDia 10..100, knobHeight
\* 5..50, shaftType 0..2, shaftDia 3..20, noOfOuterRidges 10..100) and values
\* only a direct caller can supply (0, an unknown shaft type).
ParamValues(key) ==
    CASE key = "knobDia" -> {0, 10, 35}
      [] key = "knobHeight" -> {0, SmallKnobHeight, 14}
      [] key = "shaftType" -> {0, 1, 2, 3}
      [] key = "shaftDia" -> {0, 6, NearShaftDia, 20}
      [] key = "noOfOuterRidges" -> {10, 50}
      [] OTHER -> BOOLEAN

\* a length given in millimetres, in units
U(mm) == mm * Scale

\* one entry of the record of operations a build performed
Op(step, op, i) == [step |-> step, op |-> op, i |-> i]

\* the shaft geometry of a build that has not subtracted a shaft (yet)
NoTool == [kind |-> "none"]

\* the running state of a build: the geometry so far, the operations performed
\* so far, the console messages written so far, the shaft geometry as it was
\* handed to the subtraction, and "running" until the build has returned
Build(geo, ops, log) ==
    [geo |-> geo, ops |-> ops, log |-> log, tool |-> NoTool, status |-> "running"]

\* the build b after one more call: its geometry and its operations so far
With(b, geo, ops) == [b EXCEPT !.geo = geo, !.ops = ops]

(***************************************************************************)
(* Revision "csg": src/js/knobGeometry.js, second module.                  *)
(***************************************************************************)
RadialSegmentsCsg == 64

ShaftSegments == 32

detentCount == 20

\* one ridge mesh of addOuterRidges: the box with its position and rotation
RidgeMeshCsg(i, count, diameter, height) ==
    LET ridgeWidth == Scale \div 2
        ridgeHeight == (height * 8) \div 10
        ridgeDepth == Scale
        angle == AngleOf(i, count)
        radius == diameter \div 2 + ridgeDepth \div 2
        x == (Cos(angle) * radius) \div Trig
        z == (Sin(angle) * radius) \div Trig
    IN  applyMatrix4(BoxGeometry(ridgeWidth, ridgeHeight, ridgeDepth),
                     MeshMatrix(<<x, ridgeHeight \div 2, z>>, angle))

\* a ridge loop that starts at index 1 instead of 0
addOuterRidgesFromOne(b, count, diameter, height) ==
    With(b, CsgUnionAll(b.geo, [j \in 1..(count - 1) |->
                                   RidgeMeshCsg(j, count, diameter, height)]),
         b.ops \o [j \in 1..(count - 1) |-> Op("ridges", "union", j)])

\* the loop of addOuterRidges: mergedGeometry becomes its union with ridge i,
\* for i = 0 .. count-1 in turn
addOuterRidges(b, count, diameter, height) ==
    With(b, CsgUnionAll(b.geo, [j \in 1..count |->
                                   RidgeMeshCsg(j - 1, count, diameter, height)]),
         b.ops \o [j \in 1..count |-> Op("ridges", "union", j - 1)])

addTopIndentCsg(b, diameter, height) ==
    LET indentRadius == (diameter * 3) \div 10
        indent == SphereGeometry(indentRadius, 32, 16)
        indentMesh == applyMatrix4(indent, MeshMatrix(<<0, height, 0>>, 0))
    IN  With(b, CsgSubtract(b.geo, indentMesh),
             Append(b.ops, Op("indent", "subtract", 0)))

createDShapedShaftCsg(diameter, height) ==
    LET shaft == CylinderGeometry(diameter \div 2, height, ShaftSegments)
        cutout == BoxGeometry(diameter, height, diameter \div 3)
        cutoutMesh == applyMatrix4(cutout, MeshMatrix(<<0, 0, diameter \div 6>>, 0))
    IN  [geo |-> CsgSubtract(shaft, cutoutMesh),
         ops |-> <<Op("dshape", "subtract", 0)>>]

\* one detent mesh of createDetentedShaft, with its matrix updated
DetentMeshCsg(i, diameter, height) ==
    LET detentWidth == Scale \div 2
        detentDepth == Scale
        detentHeight == (height * 12) \div 10
        angle == AngleOf(i, detentCount)
        radius == diameter \div 2
        x == (Cos(angle) * radius) \div Trig
        z == (Sin(angle) * radius) \div Trig
    IN  applyMatrix4(BoxGeometry(detentWidth, detentHeight, detentDepth),
                     MeshMatrix(<<x, 0, z>>, angle))

\* mergedDetents after the detents 0 .. n-1 have been merged into it
MergedDetentsCsg(n, diameter, height) ==
    ConcatAll(EmptyGeometry, [j \in 1..n |-> DetentMeshCsg(j - 1, diameter, height)])

\* a detented shaft whose detents are united with the cylinder
createDetentedShaftUnited(diameter, height) ==
    LET shaft == CylinderGeometry(diameter \div 2, height, ShaftSegments)
    IN  [geo |-> CsgUnionAll(shaft, <<MergedDetentsCsg(detentCount, diameter, height)>>),
         ops |-> [i \in 1..detentCount |-> Op("detent", "merge", i - 1)]
                    \o <<Op("detent", "union", 0)>>]

createDetentedShaftCsg(diameter, height) ==
    LET shaft == CylinderGeometry(diameter \div 2, height, ShaftSegments)
    IN  [geo |-> CsgSubtract(shaft, MergedDetentsCsg(detentCount, diameter, height)),
         ops |-> [i \in 1..detentCount |-> Op("detent", "merge", i - 1)]
                    \o <<Op("detent", "subtract", 0)>>]

\* a switch whose round shaft takes the diameter for the radius
ShaftGeometryWide(shaftType, shaftDia, height) ==
    CASE shaftType = 0 ->
            [geo |-> CylinderGeometry(shaftDia, height, ShaftSegments), ops |-> <<>>]
      [] shaftType = 1 -> createDShapedShaftCsg(shaftDia, height)
      [] shaftType = 2 -> createDetentedShaftCsg(shaftDia, height)
      [] OTHER -> [geo |-> Undefined, ops |-> <<>>]

\* the switch of createShaftHole: the shaft geometry and the operations that
\* shaped it, or Undefined for an unknown shaft type
ShaftGeometryCsg(shaftType, shaftDia, height) ==
    CASE shaftType = 0 ->
            [geo |-> CylinderGeometry(shaftDia \div 2, height, ShaftSegments),
             ops |-> <<>>]
      [] shaftType = 1 -> createDShapedShaftCsg(shaftDia, height)
      [] shaftType = 2 -> createDetentedShaftCsg(shaftDia, height)
      [] OTHER -> [geo |-> Undefined, ops |-> <<>>]

\* a shaft geometry exactly as tall as the knob
shaftHeightFlush(height) == height

\* const shaftHeight = height * 1.1
shaftHeight(height) == (height * 11) \div 10

createShaftHoleCsg(b, shaftType, shaftDia, height) ==
    LET shaft == ShaftGeometryCsg(shaftType, shaftDia, shaftHeight(height))
        shaftMesh == applyMatrix4(shaft.geo, MeshMatrix(<<0, height \div 2, 0>>, 0))
    IN  IF shaftType \notin {0, 1, 2}
        THEN [b EXCEPT !.log = Append(b.log, "warn: Unknown shaft type")]
        ELSE [With(b, CsgSubtract(b.geo, shaftMesh),
                   b.ops \o shaft.ops \o <<Op("shaft", "subtract", 0)>>)
                 EXCEPT !.tool = shaftMesh]

(***************************************************************************)
(* Revision "merge": src/js/knobGeometry.js, first module.                 *)
(***************************************************************************)
RadialSegments == 32

\* the buffers of every geometry of the list, one after the other
mergeBufferGeometries(geometries) == ConcatAll(Head(geometries), Tail(geometries))

\* one ridge geometry of addRidges: the matrix is set to a translation and
\* then set again to a rotation before it is applied
RidgeGeometryMerge(i, count, diameter, height) ==
    LET ridgeWidth == Scale \div 2
        ridgeHeight == (height * 8) \div 10
        ridgeDepth == Scale
        angle == AngleOf(i, count)
        radius == diameter \div 2 + ridgeDepth \div 2
        x == (Cos(angle) * radius) \div Trig
        z == (Sin(angle) * radius) \div Trig
        matrix == makeRotationY(makeTranslation(Identity, x, 0, z), angle)
    IN  applyMatrix4(BoxGeometry(ridgeWidth, ridgeHeight, ridgeDepth), matrix)

addRidgesMerge(b, count, diameter, height) ==
    LET geometries ==
            <<b.geo>> \o [j \in 1..count |->
                             RidgeGeometryMerge(j - 1, count, diameter, height)]
    IN  With(b, mergeBufferGeometries(geometries),
             b.ops \o [j \in 1..count |-> Op("ridges", "merge", j - 1)])

addTopIndentMerge(b, diameter, height) ==
    LET indentRadius == (diameter * 3) \div 10
        sphereGeometry ==
            translate(SphereGeometry(indentRadius, 32, 32), 0, height \div 2, 0)
    IN  With(b, mergeBufferGeometries(<<b.geo, sphereGeometry>>),
             Append(b.ops, Op("indent", "merge", 0)))

\* subtractGeometry: a CSG subtraction
subtractGeometry(geometryA, geometryB) == CsgSubtract(geometryA, geometryB)

createDShapedShaftMerge(diameter, height) ==
    LET shaftGeometry ==
            CylinderGeometry(diameter \div 2, (height * 11) \div 10, RadialSegments)
        cutoutGeometry ==
            translate(BoxGeometry(diameter, (height * 12) \div 10, diameter \div 3),
                      0, 0, diameter \div 3)
    IN  [geo |-> CsgSubtract(shaftGeometry, cutoutGeometry),
         ops |-> <<Op("dshape", "subtract", 0)>>]

DetentGeometryMerge(i, diameter, height) ==
    LET detentWidth == Scale \div 2
        detentHeight == diameter \div 4
        angle == AngleOf(i, detentCount)
        matrix ==
            makeRotationY(
                makeTranslation(Identity, (Cos(angle) * (diameter \div 2)) \div Trig,
                                0, (Sin(angle) * (diameter \div 2)) \div Trig),
                angle)
    IN  applyMatrix4(BoxGeometry(detentWidth, (height * 12) \div 10, detentHeight),
                     matrix)

\* shaftGeometry after the detents 0 .. n-1 have been merged into it
DetentLoopMerge(shaftGeometry, n, diameter, height) ==
    ConcatAll(shaftGeometry,
              [j \in 1..n |-> DetentGeometryMerge(j - 1, diameter, height)])

createDetentedShaftMerge(diameter, height) ==
    LET shaftGeometry ==
            CylinderGeometry(diameter \div 2, (height * 11) \div 10, RadialSegments)
    IN  [geo |-> DetentLoopMerge(shaftGeometry, detentCount, diameter, height),
         ops |-> [i \in 1..detentCount |-> Op("detent", "merge", i - 1)]]

createShaftGeometryMerge(type, diameter, height) ==
    CASE type = 1 -> createDShapedShaftMerge(diameter, height)
      [] type = 2 -> createDetentedShaftMerge(diameter, height)
      [] OTHER ->
            [geo |-> CylinderGeometry(diameter \div 2, (height * 11) \div 10,
                                      RadialSegments),
             ops |-> <<>>]

(***************************************************************************)
(* Revision "stub": src/unnamed/part_000.                                  *)
(***************************************************************************)
DetentSegmentsStub == 20

\* subtract: "for now, we'll just return the main geometry"
subtract(geometryA, geometryB) == geometryA

DetentGeometryStub(i, diameter, height) ==
    LET detentDepth == diameter \div 10
        angle == AngleOf(i, detentCount)
        r == diameter \div 2 + detentDepth \div 2
    IN  translate(BoxGeometry(detentDepth, (height * 11) \div 10, detentDepth),
                  (Cos(angle) * r) \div Trig, 0, (Sin(angle) * r) \div Trig)

\* baseShaft after the detents 0 .. n-1 have been merged into it
DetentLoopStub(baseShaft, n, diameter, height) ==
    ConcatAll(baseShaft, [j \in 1..n |-> DetentGeometryStub(j - 1, diameter, height)])

createShaftGeometryStub(type, diameter, height) ==
    CASE type = 0 ->
            [geo |-> CylinderGeometry(diameter \div 2, (height * 11) \div 10,
                                      RadialSegments),
             ops |-> <<>>]
      [] type = 1 ->
            LET roundShaft ==
                    CylinderGeometry(diameter \div 2, (height * 11) \div 10,
                                     RadialSegments)
                flatCutout ==
                    translate(BoxGeometry(diameter, (height * 11) \div 10,
                                          diameter \div 3),
                              0, 0, diameter \div 2)
            IN  [geo |-> subtract(roundShaft, flatCutout),
                 ops |-> <<Op("dshape", "noop", 0)>>]
      [] type = 2 ->
            LET baseShaft ==
                    CylinderGeometry(diameter \div 2, (height * 11) \div 10,
                                     DetentSegmentsStub)
            IN  [geo |-> DetentLoopStub(baseShaft, detentCount, diameter, height),
                 ops |-> [i \in 1..detentCount |-> Op("detent", "merge", i - 1)]]
      [] OTHER -> [geo |-> Undefined, ops |-> <<>>]

\* one ridge geometry of addRidges: translated, then rotated about the axis
RidgeGeometryStub(i, count, diameter, height) ==
    LET ridgeWidth == Scale \div 2
        ridgeHeight == (height * 8) \div 10
        ridgeDepth == Scale
        angle == AngleOf(i, count)
        radius == diameter \div 2 + ridgeDepth \div 2
        x == (Cos(angle) * radius) \div Trig
        z == (Sin(angle) * radius) \div Trig
        rotation == Atan2(angle)
    IN  rotateY(translate(BoxGeometry(ridgeWidth, ridgeHeight, ridgeDepth), x, 0, z),
                rotation)

\* the loop of addRidges: ridge i is merged into the geometry, for
\* i = 0 .. count-1 in turn
addRidgesStub(b, count, diameter, height) ==
    With(b, ConcatAll(b.geo, [j \in 1..count |->
                                 RidgeGeometryStub(j - 1, count, diameter, height)]),
         b.ops \o [j \in 1..count |-> Op("ridges", "merge", j - 1)])

addTopIndentStub(b, diameter, height) ==
    LET indentRadius == (diameter * 3) \div 10
        sphereGeometry ==
            translate(SphereGeometry(indentRadius, 32, 32), 0, height \div 2, 0)
    IN  With(b, ConcatAll(b.geo, <<sphereGeometry>>),
             Append(b.ops, Op("indent", "merge", 0)))

(***************************************************************************)
(* Revision "inline": src/unnamed/part_002, the viewer builds the knob     *)
(* itself out of a cylinder mesh and child meshes.                         *)
(***************************************************************************)
\* Object3D.lookAt(0, 0, 0) of an object placed at angle k around the axis:
\* its local +z axis is turned towards the axis
LookAtOrigin(k) == (3 * (Turn \div 4) + Turn - (k % Turn)) % Turn

RidgeMeshInline(i, p) ==
    LET ridgeCount == p.noOfOuterRidges
        ridgeWidth == Scale \div 2
        ridgeHeight == (U(p.knobHeight) * 8) \div 10
        ridgeDepth == Scale
        angle == AngleOf(i, ridgeCount)
        radius == U(p.knobDia) \div 2 + ridgeDepth \div 2
    IN  applyMatrix4(BoxGeometry(ridgeWidth, ridgeHeight, ridgeDepth),
                     MeshMatrix(<<(Cos(angle) * radius) \div Trig, 0,
                                  (Sin(angle) * radius) \div Trig>>,
                                LookAtOrigin(angle)))

\* the loop of KnobGenerator.addRidges: ridge i becomes a child of the knob
\* mesh, for i = 0 .. ridgeCount-1 in turn
addRidgesInline(b, p) ==
    With(b, AddChildren(b.geo, [j \in 1..p.noOfOuterRidges |->
                                   RidgeMeshInline(j - 1, p)]),
         b.ops \o [j \in 1..p.noOfOuterRidges |-> Op("ridges", "add", j - 1)])

DetentMeshInline(i, p) ==
    LET angle == AngleOf(i, detentCount)
        radius == U(p.shaftDia) \div 2
    IN  applyMatrix4(BoxGeometry(Scale \div 2, U(p.knobHeight + 2), Scale),
                     MeshMatrix(<<(Cos(angle) * radius) \div Trig, 0,
                                  (Sin(angle) * radius) \div Trig>>,
                                LookAtOrigin(angle)))

\* shaftMesh after the detents 0 .. n-1 have been added to it
DetentLoopInline(shaftMesh, n, p) ==
    AddChildren(shaftMesh, [j \in 1..n |-> DetentMeshInline(j - 1, p)])

\* the shaft mesh of KnobGenerator.createShaftHole with its child meshes
ShaftMeshInline(p) ==
    LET shaftGeometry ==
            CylinderGeometry(U(p.shaftDia) \div 2, U(p.knobHeight + 1), ShaftSegments)
        cutoutMesh ==
            applyMatrix4(BoxGeometry(U(p.shaftDia), U(p.knobHeight + 2),
                                     U(p.shaftDia) \div 3),
                         MeshMatrix(<<0, 0, U(p.shaftDia) \div 2>>, 0))
    IN  CASE p.shaftType = 1 ->
                [geo |-> AddChildren(shaftGeometry, <<cutoutMesh>>),
                 ops |-> <<Op("dshape", "add", 0)>>]
          [] p.shaftType = 2 ->
                [geo |-> DetentLoopInline(shaftGeometry, detentCount, p),
                 ops |-> [i \in 1..detentCount |-> Op("detent", "add", i - 1)]]
          [] OTHER -> [geo |-> shaftGeometry, ops |-> <<>>]

createShaftHoleInline(b, p) ==
    LET shaft == ShaftMeshInline(p)
    IN  [With(b, AddChildren(b.geo, <<shaft.geo>>),
              b.ops \o shaft.ops \o <<Op("shaft", "add", 0)>>)
            EXCEPT !.tool = shaft.geo]

(***************************************************************************)
(* The build, call by call.  pc is the position inside the build that      *)
(* updateKnob started: "base", "ridges", "indent", "shaft", "return", or   *)
(* "idle" when no build is running.  build holds the geometry so far, the  *)
(* operations performed so far and the console messages written so far.    *)
(***************************************************************************)
Variants == {"csg", "merge", "stub", "inline"}

\* the revisions in which the build is the function createKnobGeometry
EngineVariants == {"csg", "merge", "stub"}

\* the order of the calls in the body of the build
StepOrder(v) ==
    CASE v = "stub" -> <<"base", "shaft", "ridges", "indent", "return">>
      [] v = "inline" -> <<"base", "ridges", "shaft", "return">>
      [] OTHER -> <<"base", "ridges", "indent", "shaft", "return">>

\* the call that follows the call at position step
NextStep(v, step) ==
    LET order == StepOrder(v)
        k == CHOOSE j \in DOMAIN order : order[j] = step
    IN  order[k + 1]

\* the main cylinder of the knob
BaseGeometry(v, p) ==
    IF v = "csg"
    THEN translate(CylinderGeometry(U(p.knobDia) \div 2, U(p.knobHeight),
                                    RadialSegmentsCsg),
                   0, U(p.knobHeight) \div 2, 0)
    ELSE CylinderGeometry(U(p.knobDia) \div 2, U(p.knobHeight), RadialSegments)

\* "if (outerRidged)": the ridge call of the revision
RidgeStep(v, p, b) ==
    IF ~p.outerRidged THEN b
    ELSE CASE v = "csg" ->
                addOuterRidges(b, p.noOfOuterRidges, U(p.knobDia), U(p.knobHeight))
           [] v = "merge" ->
                addRidgesMerge(b, p.noOfOuterRidges, U(p.knobDia), U(p.knobHeight))
           [] v = "stub" ->
                addRidgesStub(b, p.noOfOuterRidges, U(p.knobDia), U(p.knobHeight))
           [] OTHER -> addRidgesInline(b, p)

\* "if (makeTopIndent)": the indent call of the revision
IndentStep(v, p, b) ==
    IF ~p.makeTopIndent THEN b
    ELSE CASE v = "csg" -> addTopIndentCsg(b, U(p.knobDia), U(p.knobHeight))
           [] v = "merge" -> addTopIndentMerge(b, U(p.knobDia), U(p.knobHeight))
           [] OTHER -> addTopIndentStub(b, U(p.knobDia), U(p.knobHeight))

\* the shaft hole of the revision: guarded by "if (shaftDia > 0)" in "csg" and
\* "inline", unguarded in "merge" and "stub"
ShaftStep(v, p, b) ==
    CASE v = "csg" ->
            IF p.shaftDia > 0
            THEN createShaftHoleCsg(b, p.shaftType, U(p.shaftDia), U(p.knobHeight))
            ELSE b
      [] v = "merge" ->
            LET shaft == createShaftGeometryMerge(p.shaftType, U(p.shaftDia),
                                                  U(p.knobHeight))
            IN  [With(b, subtractGeometry(b.geo, shaft.geo),
                      b.ops \o shaft.ops \o <<Op("shaft", "subtract", 0)>>)
                    EXCEPT !.tool = shaft.geo]
      [] v = "stub" ->
            LET shaft == createShaftGeometryStub(p.shaftType, U(p.shaftDia),
                                                 U(p.knobHeight))
            IN  [With(b, subtract(b.geo, shaft.geo),
                      b.ops \o shaft.ops \o <<Op("shaft", "noop", 0)>>)
                    EXCEPT !.tool = shaft.geo]
      [] OTHER -> IF p.shaftDia > 0 THEN createShaftHoleInline(b, p) ELSE b

(***************************************************************************)
(* The viewer: KnobGenerator.                                              *)
(***************************************************************************)
\* this.knobMesh = null
Null == [kind |-> "null"]

\* the objects setupLighting adds to the scene
Fixtures ==
    {[type |-> t, geo |-> Null] :
        t \in {"AmbientLight", "DirectionalLight", "PointLight", "GridHelper",
               "AxesHelper"}}

\* new THREE.Mesh(geometry, material)
Mesh(geometry) == [type |-> "Mesh", geo |-> geometry]

NoBuild == Build(Null, <<>>, <<>>)

\* this.knobMesh while the build runs: the "inline" revision creates the mesh
\* with the main cylinder and adds the features to it as children; the other
\* revisions assign this.knobMesh when the build has returned
MeshInProgress(v, mesh, b) == IF v = "inline" THEN Mesh(b.geo) ELSE mesh

\* what the page has run last: the handler, how it ended and what it handed
\* to the STL exporter
Handler(handler, outcome, data) ==
    [handler |-> handler, outcome |-> outcome, data |-> data]

NoHandler == Handler("none", "none", {})

\* the revisions of the viewer: "first" is src/js/app.js lines 1-231, "second"
\* is src/js/app.js lines 232-416, "part001" is src/unnamed/part_001 and
\* "inline" is src/unnamed/part_002
Viewers == {"first", "second", "part001", "inline"}

\* the revisions of the module that src/index.html imports as /js/ui.js:
\* src/js/ui.js and src/unnamed/part_003; "none" is a page whose only script
\* is the viewer
UiModules == {"none", "ui.js", "part003"}

\* the page before DOMContentLoaded: src/index.html holds the canvas and the
\* export button, the parameter controls are not in the document yet, no
\* listener is attached and no frame is requested
Page(viewer, ui) ==
    [viewer |-> viewer, ui |-> ui, phase |-> "loading", controls |-> FALSE,
     listeners |-> [k \in ParamKeys |-> "none"], exportListener |-> "none",
     frame |-> "none", calls |-> <<>>, last |-> NoHandler]

\* the constructor has set the default parameters and the scene, and init()
\* is calling updateKnob() for the first time
Init ==
    /\ variant \in Variants
    /\ params = DefaultParams
    /\ pc = "base"
    /\ build = NoBuild
    /\ knobMesh = Null
    /\ scene = Fixtures
    /\ page = IF variant = "inline" THEN Page("inline", "none")
              ELSE Page("second", "part003")

\* KnobGenerator.updateParams({key: value}), as the listeners of the controls
\* call it: the value is merged into this.params and updateKnob starts, which
\* takes the old mesh out of the scene before it builds the new one
UpdateParams(key, value) ==
    /\ pc = "idle"
    /\ params' = [params EXCEPT ![key] = value]
    /\ scene' = IF knobMesh # Null THEN scene \ {knobMesh} ELSE scene
    /\ knobMesh' = IF variant = "inline" THEN knobMesh ELSE Null
    /\ build' = NoBuild
    /\ pc' = "base"
    /\ UNCHANGED <<page, variant, page>>

\* a build that first rounds the ridge count of the record it was given
BuildBaseRounding ==
    /\ pc = "base"
    /\ params' = [params EXCEPT !.noOfOuterRidges = 10]
    /\ build' = Build(BaseGeometry(variant, params), <<Op("base", "create", 0)>>, <<>>)
    /\ pc' = NextStep(variant, "base")
    /\ knobMesh' = MeshInProgress(variant, knobMesh, build')
    /\ UNCHANGED <<page, variant, scene>>

\* the main cylinder is created
BuildBase ==
    /\ pc = "base"
    /\ build' = Build(BaseGeometry(variant, params), <<Op("base", "create", 0)>>, <<>>)
    /\ pc' = NextStep(variant, "base")
    /\ knobMesh' = MeshInProgress(variant, knobMesh, build')
    /\ UNCHANGED <<page, variant, params, scene>>

AddRidges ==
    /\ pc = "ridges"
    /\ build' = RidgeStep(variant, params, build)
    /\ pc' = NextStep(variant, "ridges")
    /\ knobMesh' = MeshInProgress(variant, knobMesh, build')
    /\ UNCHANGED <<page, variant, params, scene>>

AddTopIndent ==
    /\ pc = "indent"
    /\ build' = IndentStep(variant, params, build)
    /\ pc' = NextStep(variant, "indent")
    /\ UNCHANGED <<page, variant, params, knobMesh, scene>>

CreateShaftHole ==
    /\ pc = "shaft"
    /\ build' = ShaftStep(variant, params, build)
    /\ pc' = NextStep(variant, "shaft")
    /\ knobMesh' = MeshInProgress(variant, knobMesh, build')
    /\ UNCHANGED <<page, variant, params, scene>>

\* what the build hands back: every path of every revision ends in
\* "return <geometry>", none throws and none returns an error value
Returned(b) == [b EXCEPT !.status = "returned"]

\* the build returns; updateKnob gives up when it got no geometry
\* ("if (!geometry) return") and otherwise wraps the geometry in a mesh and
\* adds the mesh to the scene
Return ==
    /\ pc = "return"
    /\ build' = Returned(build)
    /\ IF build'.status # "returned" \/ build'.geo.kind \in {"undefined", "null"}
       THEN UNCHANGED <<knobMesh, scene>>
       ELSE /\ knobMesh' = Mesh(build'.geo)
            /\ scene' = scene \cup {Mesh(build'.geo)}
    /\ pc' = "idle"
    /\ UNCHANGED <<page, variant, params>>

Next ==
    \/ \E key \in ParamKeys : \E value \in ParamValues(key) : UpdateParams(key, value)
    \/ BuildBase
    \/ AddRidges
    \/ AddTopIndent
    \/ CreateShaftHole
    \/ Return

Spec == Init /\ [][Next]_vars

(***************************************************************************)
(* The finished build.                                                     *)
(***************************************************************************)
\* updateKnob has finished: the build has returned and its result, if any, is
\* in the scene
Finished == pc = "idle"

\* the build was the function createKnobGeometry
EngineBuild == Finished /\ variant \in EngineVariants

\* the positions in the record of operations of the operations of one call
StepOps(steps) == {i \in DOMAIN build.ops : build.ops[i].step \in steps}

\* the calls that shape the shaft geometry and subtract it
ShaftSteps == {"dshape", "detent", "shaft"}

\* the place of a call in the order base, ridges, indent, shaft
Rank(step) ==
    CASE step = "base" -> 1
      [] step = "ridges" -> 2
      [] step = "indent" -> 3
      [] OTHER -> 4

\* C1: a finished build of createKnobGeometry has performed its operations in
\* the order base cylinder, ridges, top indent, shaft hole, with exactly one
\* base cylinder first, ridge operations if and only if outerRidged, an
\* indent operation if and only if makeTopIndent, exactly one then, and
\* shaft operations only if shaftDia > 0, with at most one shaft subtraction.
C1_FixedStepOrder ==
    EngineBuild =>
        /\ StepOps({"base"}) = {1}
        /\ \A i, j \in DOMAIN build.ops :
               i < j => Rank(build.ops[i].step) <= Rank(build.ops[j].step)
        /\ (StepOps({"ridges"}) # {}) <=> params.outerRidged
        /\ Cardinality(StepOps({"indent"})) = (IF params.makeTopIndent THEN 1 ELSE 0)
        /\ (StepOps(ShaftSteps) # {}) => params.shaftDia > 0
        /\ Cardinality(StepOps({"shaft"})) <= 1

\* the operations that are boolean operations of constructive solid geometry
BooleanOps == {"union", "subtract"}

\* C2: every operation of a finished build of createKnobGeometry that
\* combines a feature with the solid or shapes the shaft geometry is a union
\* or a subtraction of solids, never a concatenation of buffers and never a
\* subtraction that returns its first operand.
C2_OnlyBooleans ==
    EngineBuild =>
        \A i \in DOMAIN build.ops :
            build.ops[i].step # "base" => build.ops[i].op \in BooleanOps

\* C3: the geometry a build of createKnobGeometry returns is closed: it has
\* no edge that belongs to one triangle only.
C3_ClosedManifold ==
    (EngineBuild /\ build.status = "returned") => OpenEdges(build.geo) = 0

\* the shaft types the switch statements know
KnownShaftTypes == {0, 1, 2}

\* C4: a build of createKnobGeometry with shaftDia > 0 and a shaft type
\* that is none of round, D-shaped and detented ends with the error
\* UnsupportedShaftType.
C4_UnknownShaftTypeFails ==
    (EngineBuild /\ params.shaftDia > 0 /\ params.shaftType \notin KnownShaftTypes)
        => build.status = "UnsupportedShaftType"

\* the values the sliders of the page offer
KnobDiaRange == 10..100

ShaftDiaRange == 3..20

\* C5: a build of createKnobGeometry whose shaft is as wide as the knob or
\* wider, both diameters being values the sliders offer, ends with the error
\* InvalidGeometryParameter.
C5_WideShaftRejected ==
    (EngineBuild /\ params.knobDia \in KnobDiaRange
                 /\ params.shaftDia \in ShaftDiaRange
                 /\ params.shaftDia >= params.knobDia)
        => build.status = "InvalidGeometryParameter"

\* C6: a finished build of createKnobGeometry with shaftDia = 0 has performed
\* no operation of the shaft call, and without ridges and indent its geometry
\* is the base cylinder as it was created.
C6_NoShaftNoSubtraction ==
    (EngineBuild /\ params.shaftDia = 0) =>
        /\ StepOps(ShaftSteps) = {}
        /\ (~params.outerRidged /\ ~params.makeTopIndent)
              => build.geo = BaseGeometry(variant, params)

\* the operations that change the solid
Effective(i) == build.ops[i].op # "noop"

\* every feature the parameters enable has been applied to the solid
Complete ==
    /\ params.outerRidged =>
          Cardinality({i \in StepOps({"ridges"}) : Effective(i)})
              = params.noOfOuterRidges
    /\ params.makeTopIndent => \E i \in StepOps({"indent"}) : Effective(i)
    /\ params.shaftDia > 0 => \E i \in StepOps({"shaft"}) : Effective(i)

\* C7: a finished build of createKnobGeometry has either returned a solid to
\* which every enabled feature has been applied, or it has ended with an
\* error; it never returns a solid that lacks an enabled feature.
C7_CompleteOrError ==
    EngineBuild => (Complete \/ build.status # "returned")

\* C8: while knobDia <= 0 or knobHeight <= 0 a build of createKnobGeometry
\* performs no boolean operation, and when it has finished it has ended with
\* the error InvalidGeometryParameter.
C8_NonPositiveSizeFails ==
    (variant \in EngineVariants /\ (params.knobDia <= 0 \/ params.knobHeight <= 0)) =>
        /\ \A i \in DOMAIN build.ops : build.ops[i].op \notin BooleanOps
        /\ Finished => build.status = "InvalidGeometryParameter"

(***************************************************************************)
(* Sample points.  A spoke is a direction around the axis; the radii (in   *)
(* units) lie just inside and just outside the shaft, knob and ridge radii *)
(* of the parameter values, and the levels lie below, inside and above the *)
(* knob both where it stands on y = 0 and where it is centred on y = 0.    *)
(***************************************************************************)
SampleRadii ==
    {300, 1200, 3480, 3720, 5880, 6120, 7080, 7320, 11880, 12120, 20880, 21120,
     22080, 22320}

SampleSpokes == {0, 10, 13, 25, 50}

SampleLevels == {-8900, -600, 600, 3000, 8000, 8900, 10000, 16000, 17200}

Samples ==
    {<<(Cos(k) * r) \div Trig, y, (Sin(k) * r) \div Trig>> :
        r \in SampleRadii, k \in SampleSpokes, y \in SampleLevels}

\* the geometry encloses no sample point: a mesh without polygons
IsEmpty(g) == \A p \in Samples : ~Inside(p, g)

\* C9: when the last boolean operation of a build of createKnobGeometry on a
\* knob of positive diameter and height leaves nothing of the solid, the
\* build ends with the error DegenerateResult and the empty mesh is not put
\* into the scene.
C9_DegenerateReported ==
    (EngineBuild /\ params.knobDia > 0 /\ params.knobHeight > 0
                 /\ build.geo.kind \in BooleanOps /\ IsEmpty(build.geo))
        => (build.status = "DegenerateResult" /\ Mesh(build.geo) \notin scene)

Min(a, b) == IF a < b THEN a ELSE b

Max(a, b) == IF a > b THEN a ELSE b

RECURSIVE MinSeq(_)
MinSeq(ns) == IF Len(ns) = 1 THEN ns[1] ELSE Min(ns[1], MinSeq(Tail(ns)))

RECURSIVE MaxSeq(_)
MaxSeq(ns) == IF Len(ns) = 1 THEN ns[1] ELSE Max(ns[1], MaxSeq(Tail(ns)))

RECURSIVE YLow2(_)
\* twice the lowest y of a geometry (a subtraction that does not cut the
\* whole bottom away leaves the lowest y of its first operand)
YLow2(g) ==
    CASE g.kind \in {"cylinder"} -> 2 * g.m.t[2] - g.height
      [] g.kind = "box" -> 2 * g.m.t[2] - g.h
      [] g.kind = "sphere" -> 2 * g.m.t[2]
      [] g.kind = "subtract" -> YLow2(g.a)
      [] OTHER -> MinSeq(<<YLow2(g.a)>> \o [j \in DOMAIN g.bs |-> YLow2(g.bs[j])])

RECURSIVE YHigh2(_)
\* twice the highest y of a geometry
YHigh2(g) ==
    CASE g.kind \in {"cylinder"} -> 2 * g.m.t[2] + g.height
      [] g.kind = "box" -> 2 * g.m.t[2] + g.h
      [] g.kind = "sphere" -> 2 * (g.m.t[2] + g.radius)
      [] g.kind = "subtract" -> YHigh2(g.a)
      [] OTHER -> MaxSeq(<<YHigh2(g.a)>> \o [j \in DOMAIN g.bs |-> YHigh2(g.bs[j])])

\* a shaft geometry has been made and handed to the subtraction
HasTool == build.tool.kind \notin {"none", "undefined"}

Dist2(v) == v[1] * v[1] + v[3] * v[3]

\* the corners of a box, seen from above, in the frame of the solid
BoxCorners(g) ==
    {<<RotY(g.m.rot, <<sx * (g.w \div 2), 0, sz * (g.d \div 2)>>)[1] + g.m.t[1],
       0,
       RotY(g.m.rot, <<sx * (g.w \div 2), 0, sz * (g.d \div 2)>>)[3] + g.m.t[3]>> :
        sx \in {-1, 1}, sz \in {-1, 1}}

\* the largest element of a non-empty set of numbers
MaxOf(S) == CHOOSE n \in S : \A k \in S : k <= n

RECURSIVE Reach2(_)
\* the square of the largest horizontal distance from the axis that a point of
\* the geometry can have (a subtraction reaches no further than its first
\* operand)
Reach2(g) ==
    CASE IsNothing(g) -> 0
      [] g.kind \in {"cylinder", "sphere"} ->
            LET off == Abs(g.m.t[1]) + Abs(g.m.t[3])
            IN  (off + g.radius) * (off + g.radius)
      [] g.kind = "box" -> MaxOf({Dist2(c) : c \in BoxCorners(g)})
      [] g.kind = "subtract" -> Reach2(g.a)
      [] OTHER -> MaxOf({Reach2(g.a)} \cup {Reach2(g.bs[j]) : j \in DOMAIN g.bs})

\* C11: in the build of src/js/knobGeometry.js (createShaftHole with
\* createDShapedShaft and createDetentedShaft), for every shaft type and
\* 0 < shaftDia < knobDia, every point of the shaft geometry lies at a
\* horizontal distance from the axis strictly below knobDia / 2: its reach
\* is below the knob radius and no sample point inside it is at the knob
\* radius or beyond.
C11_BoreInsideWall ==
    (variant = "csg" /\ HasTool /\ 0 < params.shaftDia
                     /\ params.shaftDia < params.knobDia) =>
        LET R == U(params.knobDia) \div 2
        IN  /\ Reach2(build.tool) < R * R
            /\ \A p \in Samples : Inside(p, build.tool) => Dist2(p) < R * R

\* a detented shaft almost as wide as the knob has been subtracted
C11_Witness ==
    /\ Finished
    /\ variant = "csg"
    /\ params.shaftType = 2
    /\ params.shaftDia = NearShaftDia
    /\ params.knobDia = 10
    /\ HasTool
    /\ \E p \in Samples : Inside(p, build.tool)

\* the ridge call of a build of createKnobGeometry has just returned, and
\* ridges were asked for
RidgesJustAdded ==
    /\ variant \in EngineVariants
    /\ pc = NextStep(variant, "ridges")
    /\ params.outerRidged

\* the indices of the ridge operations of the build, in the order performed
RidgeIndices ==
    LET at == StepOps({"ridges"})
        first == CHOOSE i \in at : \A k \in at : i <= k
    IN  IF at = {} THEN <<>>
        ELSE [j \in 1..Cardinality(at) |-> build.ops[first + j - 1].i]

RidgeCentre(i, count, diameter) ==
    LET radius == diameter \div 2 + Scale \div 2
    IN  <<(Cos(AngleOf(i, count)) * radius) \div Trig,
          (Sin(AngleOf(i, count)) * radius) \div Trig>>

\* C13: when the ridge call of createKnobGeometry has returned with
\* outerRidged true, the centre of ridge i, as it was combined with the
\* solid, lies at (cos, sin)(2*pi*i/count) scaled by knobDia/2 +
\* ridgeDepth/2: the translation is still in effect after the rotation.
C13_RidgeCentres ==
    RidgesJustAdded =>
        \A j \in DOMAIN build.geo.bs :
            <<build.geo.bs[j].m.t[1], build.geo.bs[j].m.t[3]>>
                = RidgeCentre(j - 1, params.noOfOuterRidges, U(params.knobDia))

\* C14: when the ridge call of createKnobGeometry has returned with
\* outerRidged true, every sample point of the base cylinder is still in the
\* solid, and every corner of every ridge box is at a horizontal distance of
\* at least knobDia / 2 from the axis.
C14_RidgesOnlyOutside ==
    (RidgesJustAdded /\ params.knobDia > 0) =>
        LET R == U(params.knobDia) \div 2
        IN  /\ \A p \in Samples :
                   Inside(p, BaseGeometry(variant, params)) => Inside(p, build.geo)
            /\ \A j \in DOMAIN build.geo.bs :
                   \A c \in BoxCorners(build.geo.bs[j]) : Dist2(c) >= R * R

\* the indent call of a build of createKnobGeometry has just returned, and
\* an indent was asked for
IndentJustMade ==
    /\ variant \in EngineVariants
    /\ pc = NextStep(variant, "indent")
    /\ params.makeTopIndent

\* C15: when the indent call of createKnobGeometry has returned with
\* makeTopIndent true, the solid is the subtraction of one half sphere of
\* radius 0.3 * knobDia whose flat face lies in the plane of the top face
\* of the base cylinder.
C15_IndentSubtracted ==
    IndentJustMade =>
        /\ Len(build.geo.bs) = 1
        /\ build.geo.bs[1].kind = "sphere"
        /\ build.geo.bs[1].radius = (U(params.knobDia) * 3) \div 10
        /\ 2 * build.geo.bs[1].m.t[2] = YHigh2(BaseGeometry(variant, params))
        /\ build.geo.kind = "subtract"
        /\ build.ops[Len(build.ops)] = Op("indent", "subtract", 0)

\* the height half way up a geometry
MidLevel(g) == (YLow2(g) + YHigh2(g)) \div 4

\* points inside the plain cylinder of diameter d at height y: on and beside
\* the axis, behind it, between the axis and the plane z = d/6, and beyond
\* that plane
DShapePoints(d, y) ==
    {<<x, y, z>> : x \in {0, d \div 4},
                   z \in {0 - d \div 4, 0, d \div 12, d \div 4}}
        \cup {<<0, y, (2 * d) \div 5>>}

\* a build of createKnobGeometry has made a D-shaped shaft geometry
DShapeMade ==
    /\ variant \in EngineVariants
    /\ HasTool
    /\ params.shaftType = 1
    /\ params.shaftDia > 0
    /\ params.knobHeight > 0

\* C16: the D-shaped shaft geometry of createKnobGeometry is a cylinder of
\* diameter shaftDia from which one box has been subtracted, and of the
\* points of that cylinder exactly those on the axis side of the plane
\* z = shaftDia / 6 belong to it.
C16_DShapeFlat ==
    DShapeMade =>
        LET d == U(params.shaftDia)
        IN  /\ build.tool.kind = "subtract"
            /\ build.tool.a.kind = "cylinder"
            /\ 2 * build.tool.a.radius = d
            /\ Len(build.tool.bs) = 1
            /\ build.tool.bs[1].kind = "box"
            /\ \A p \in DShapePoints(d, MidLevel(build.tool)) :
                   Inside(p, build.tool) <=> 6 * p[3] < d

\* a build of createKnobGeometry has made a detented shaft geometry
DetentedMade ==
    /\ variant \in EngineVariants
    /\ HasTool
    /\ params.shaftType = 2
    /\ params.shaftDia > 0
    /\ params.knobHeight > 0

\* the detent boxes of a detented shaft geometry, whether they were combined
\* with the cylinder one by one or as one merged geometry
DetentBoxes(g) ==
    IF Len(g.bs) = 1 /\ ~IsPrimitive(g.bs[1]) THEN g.bs[1].bs ELSE g.bs

\* points of the plain shaft cylinder of diameter d at height y, a tenth of a
\* millimetre inside its surface, at the detent angles
SurfacePoints(d, y) ==
    {<<(Cos(AngleOf(i, detentCount)) * (d \div 2 - Scale \div 10)) \div Trig,
       y,
       (Sin(AngleOf(i, detentCount)) * (d \div 2 - Scale \div 10)) \div Trig>> :
        i \in 0..(detentCount - 1)}

\* C17: the detented shaft geometry of createKnobGeometry is the union of the
\* plain shaft cylinder with exactly 20 boxes, box i centred on the cylinder
\* surface at the angle 2*pi*i/20, and every point of the plain cylinder
\* belongs to it.
C17_DetentsUnited ==
    DetentedMade =>
        LET d == U(params.shaftDia)
            boxes == DetentBoxes(build.tool)
        IN  /\ build.tool.kind = "union"
            /\ build.tool.a.kind = "cylinder"
            /\ Len(boxes) = detentCount
            /\ \A j \in 1..detentCount :
                   /\ boxes[j].kind = "box"
                   /\ boxes[j].m.t[1] = (Cos(AngleOf(j - 1, detentCount)) * (d \div 2)) \div Trig
                   /\ boxes[j].m.t[3] = (Sin(AngleOf(j - 1, detentCount)) * (d \div 2)) \div Trig
            /\ \A p \in SurfacePoints(d, MidLevel(build.tool)) : Inside(p, build.tool)

\* the build of src/js/knobGeometry.js (second module) has finished for a
\* round shaft without ridges and without indent
PlainRoundBuilt ==
    /\ Finished
    /\ variant = "csg"
    /\ params.shaftType = 0
    /\ params.shaftDia > 0
    /\ ~params.outerRidged
    /\ ~params.makeTopIndent

\* C18: a finished build of createKnobGeometry (createShaftHole) for a round
\* shaft with shaftDia > 0, without ridges and without indent has performed
\* exactly one boolean operation, the subtraction of the shaft from the base
\* cylinder, and the shaft is a plain cylinder of radius shaftDia / 2 on the
\* axis of the knob (radius 3 mm for shaftDia = 6).
C18_SingleSubtraction ==
    PlainRoundBuilt =>
        /\ {i \in DOMAIN build.ops : build.ops[i].op \in BooleanOps \cup {"merge", "noop", "add"}}
              = {Len(build.ops)}
        /\ build.ops[Len(build.ops)] = Op("shaft", "subtract", 0)
        /\ build.geo = CsgSubtract(BaseGeometry(variant, params), build.tool)
        /\ build.tool.kind = "cylinder"
        /\ 2 * build.tool.radius = U(params.shaftDia)
        /\ params.shaftDia = 6 => build.tool.radius = 3 * Scale
        /\ build.tool.m.t[1] = 0
        /\ build.tool.m.t[3] = 0

\* the default knob without ridges and indent has got its round bore
C18_Witness ==
    /\ PlainRoundBuilt
    /\ params.knobDia = 35
    /\ params.knobHeight = 14
    /\ params.shaftDia = 6
    /\ build.geo.kind = "subtract"

\* one call of the body of the build, applied to the build so far
ApplyStep(v, p, step, b) ==
    CASE step = "ridges" -> RidgeStep(v, p, b)
      [] step = "indent" -> IndentStep(v, p, b)
      [] step = "shaft" -> ShaftStep(v, p, b)
      [] OTHER -> b

\* what createKnobGeometry returns for the parameter record p when it is
\* called on its own: the calls of its body, in their order, applied to a
\* fresh base cylinder
ResultOf(v, p) ==
    LET order == StepOrder(v)
        fresh == Build(BaseGeometry(v, p), <<Op("base", "create", 0)>>, <<>>)
    IN  Returned(ApplyStep(v, p, order[4],
                 ApplyStep(v, p, order[3], ApplyStep(v, p, order[2], fresh))))

SubtractOf(v, a, b) ==
    CASE v = "csg" -> CsgSubtract(a, b)
      [] v = "merge" -> subtractGeometry(a, b)
      [] OTHER -> subtract(a, b)

\* first operands: the base cylinders, a knob with ten ridges, a knob that
\* has its bore already, and a box beside the axis
SolidsA ==
    {BaseGeometry("csg", DefaultParams),
     BaseGeometry("merge", DefaultParams),
     addOuterRidges(Build(BaseGeometry("csg", DefaultParams), <<>>, <<>>),
                    10, U(35), U(14)).geo,
     CsgSubtract(BaseGeometry("merge", DefaultParams),
                 CylinderGeometry(U(6) \div 2, U(14), ShaftSegments)),
     translate(BoxGeometry(U(10), U(10), U(10)), U(5), 0, 0)}

\* second operands: the shaft geometries of the revisions, a cylinder wider
\* than the knob, a box that overlaps the knob in part, and a box far away
SolidsB ==
    {translate(ShaftGeometryCsg(t, U(6), shaftHeight(U(14))).geo, 0, U(7), 0) :
        t \in KnownShaftTypes}
        \cup {createShaftGeometryMerge(t, U(20), U(14)).geo : t \in KnownShaftTypes}
        \cup {CylinderGeometry(U(36) \div 2, U(40), ShaftSegments),
              translate(BoxGeometry(U(10), U(10), U(10)), U(10), U(7), 0),
              translate(BoxGeometry(U(2), U(2), U(2)), 0, U(24), 0)}

InitSubtract ==
    /\ variant \in EngineVariants
    /\ params = DefaultParams
    /\ pc = "operands"
    /\ build \in {[Build(a, <<>>, <<>>) EXCEPT !.tool = b] : a \in SolidsA, b \in SolidsB}
    /\ knobMesh = Null
    /\ scene = Fixtures
    /\ page = IF variant = "inline" THEN Page("inline", "none")
              ELSE Page("second", "part003")

\* subtract(A, B)
SubtractOnce ==
    /\ pc = "operands"
    /\ build' = [build EXCEPT !.geo = SubtractOf(variant, build.geo, build.tool)]
    /\ knobMesh' = Mesh(build'.geo)
    /\ pc' = "once"
    /\ UNCHANGED <<page, variant, params, scene>>

\* subtract(subtract(A, B), B)
SubtractAgain ==
    /\ pc = "once"
    /\ build' = [build EXCEPT !.geo = SubtractOf(variant, build.geo, build.tool)]
    /\ pc' = "twice"
    /\ UNCHANGED <<page, variant, params, knobMesh, scene>>

NextSubtract == SubtractOnce \/ SubtractAgain

SpecSubtract == InitSubtract /\ [][NextSubtract]_vars

\* two geometries enclose the same sample points
SameSolid(g, h) == \A p \in Samples : Inside(p, g) <=> Inside(p, h)

C21_NoLogOutput ==
    variant \in EngineVariants => build.log = <<>>

\* ridge i as the ridge loop of the revision builds it
RidgeOf(v, i, p) ==
    CASE v = "csg" ->
            RidgeMeshCsg(i, p.noOfOuterRidges, U(p.knobDia), U(p.knobHeight))
      [] v = "merge" ->
            RidgeGeometryMerge(i, p.noOfOuterRidges, U(p.knobDia), U(p.knobHeight))
      [] OTHER ->
            RidgeGeometryStub(i, p.noOfOuterRidges, U(p.knobDia), U(p.knobHeight))

\* C22: when the ridge loop of addOuterRidges / addRidges has run, the solid
\* handed to the next call is the chain of unions ((base + ridge 0) +
\* ridge 1) + ... + ridge count-1: its first operand is the base cylinder,
\* its k-th further operand is ridge k-1, and every iteration performed a
\* union.
C22_LeftToRightUnions ==
    (RidgesJustAdded /\ variant \in {"csg", "merge"}) =>
        /\ build.geo.kind = "union"
        /\ build.geo.a = BaseGeometry(variant, params)
        /\ Len(build.geo.bs) = params.noOfOuterRidges
        /\ \A k \in DOMAIN build.geo.bs :
               build.geo.bs[k] = RidgeOf(variant, k - 1, params)
        /\ \A i \in StepOps({"ridges"}) : build.ops[i].op = "union"

\* the ridge loop of a build has just finished, in a revision whose ridge box
\* is placed as in addOuterRidges, in addRidges of src/unnamed/part_000 or in
\* KnobGenerator.addRidges
RidgeZeroPlaced ==
    /\ variant \in {"csg", "stub", "inline"}
    /\ pc = NextStep(variant, "ridges")
    /\ params.outerRidged
    /\ params.knobDia > 0

\* C23: ridge 0, which lies on the +x axis, occupies the radial interval from
\* knobDia / 2 to knobDia / 2 + ridgeDepth (its inner face lies on the surface
\* of the knob) and is ridgeWidth wide across the radius.
C23_RidgeZeroRadial ==
    RidgeZeroPlaced =>
        LET R == U(params.knobDia) \div 2
            ridgeDepth == Scale
            ridgeWidth == Scale \div 2
            corners == BoxCorners(build.geo.bs[1])
        IN  /\ \A c \in corners :
                   /\ c[1] \in {R, R + ridgeDepth}
                   /\ c[3] \in {0 - ridgeWidth \div 2, ridgeWidth \div 2}
            /\ \E c \in corners : c[1] = R
            /\ \E c \in corners : c[1] = R + ridgeDepth

\* C24: when the indent call of createKnobGeometry has returned with
\* makeTopIndent true and positive sizes, the indent tool reaches into the
\* solid it was given, and the solid handed on is a strict subset of that
\* solid (which is what the build hands on when makeTopIndent is false).
C24_IndentCutsCavity ==
    (/\ IndentJustMade
     /\ variant \in {"csg", "merge"}
     /\ params.knobDia > 0
     /\ params.knobHeight > 0) =>
        LET before == build.geo.a
            tool == build.geo.bs[1]
        IN  /\ \E p \in Samples : Inside(p, tool) /\ Inside(p, before)
            /\ \A p \in Samples : Inside(p, build.geo) => Inside(p, before)
            /\ \E p \in Samples : Inside(p, before) /\ ~Inside(p, build.geo)

(***************************************************************************)
(* The page: start-up, the listeners of the controls, the animation loop   *)
(* and the STL export.  Every handler runs to its end before the next      *)
(* event is taken, so each handler is one action, and createKnobGeometry   *)
(* is the function ResultOf inside it.                                     *)
(***************************************************************************)
\* the most calls of updateParams in one behaviour
MaxCalls == 2

RECURSIVE ParseDigits(_)
\* the number that a string of decimal digits denotes
ParseDigits(ds) ==
    IF ds = <<>> THEN 0
    ELSE 10 * ParseDigits(SubSeq(ds, 1, Len(ds) - 1)) + ds[Len(ds)]

\* parseInt(e.target.value, 10) and parseFloat(e.target.value) of a slider or
\* select whose value is a whole number
parseInt(value) == ParseDigits(value)

parseFloat(value) == ParseDigits(value)

\* values a user can give the controls that setupUI inserts: positions of
\* the sliders within their min and max, options of the select, states of
\* the checkboxes
ControlValues(key) ==
    CASE key = "knobDia" -> {<<1, 0>>}
      [] key = "knobHeight" -> {<<5>>}
      [] key = "shaftType" -> {<<1>>, <<2>>}
      [] key = "shaftDia" -> {<<9>>}
      [] key = "noOfOuterRidges" -> {<<1, 0>>}
      [] key = "outerRidged" -> BOOLEAN
      [] OTHER -> {FALSE}

\* the object a listener of src/unnamed/part_003 (or of src/js/ui.js) passes
\* to app.updateParams for the control key
ListenerArgument(key, value) ==
    CASE key \in {"knobDia", "knobHeight", "shaftDia"} ->
            [k \in {key} |-> parseFloat(value)]
      [] key \in {"shaftType", "noOfOuterRidges"} ->
            [k \in {key} |-> parseInt(value)]
      [] OTHER -> [k \in {key} |-> value]

\* arguments of a direct call of updateParams: objects as the listeners pass
\* them, and one object with two keys
CallArguments ==
    UNION {{ListenerArgument(key, value) : value \in ControlValues(key)} :
              key \in ParamKeys}
        \cup {[knobDia |-> 10, shaftDia |-> 9]}

\* a merge in which the values already in the target win
ObjectAssignKeepTarget(target, source) == target

\* Object.assign(this.params, newParams), and {...this.params, ...newParams}:
\* the keys of the source overwrite those of the target, the others stay
ObjectAssign(target, source) ==
    [k \in DOMAIN target |-> IF k \in DOMAIN source THEN source[k] ELSE target[k]]

\* how a call of createKnobGeometry can end: the source has no throw
\* statement and always reaches "return", but the calls into the CSG library
\* can throw; the "inline" revision calls no such library
Outcomes(v) == IF v = "inline" THEN {"built"} ELSE {"built", "threw"}

\* KnobGenerator.updateKnob with the parameter record p: the old mesh is
\* taken out of the scene first (the "second" and "part001" revisions also
\* set this.knobMesh to null), then the geometry is built and the new mesh is
\* added; an exception of the build leaves the method at that point, and the
\* "second" and "part001" revisions return early when they get no geometry
updateKnob(p, mesh, sc, outcome) ==
    LET removed == IF mesh # Null THEN sc \ {mesh} ELSE sc
        disposed == IF page.viewer \in {"second", "part001"} THEN Null ELSE mesh
    IN  /\ build' = IF outcome = "threw" THEN NoBuild ELSE ResultOf(variant, p)
        /\ IF \/ outcome = "threw"
              \/ /\ page.viewer \in {"second", "part001"}
                 /\ build'.geo.kind \in {"undefined", "null"}
           THEN /\ knobMesh' = disposed
                /\ scene' = removed
           ELSE /\ knobMesh' = Mesh(build'.geo)
                /\ scene' = removed \cup {knobMesh'}

\* the value of "this" in the frame callback that animate() hands to
\* requestAnimationFrame when init() or the constructor calls it: an arrow
\* function ("first", "inline"), an arrow class field ("second"), or the
\* prototype's method, which the constructor binds only after init() has
\* already requested the frame ("part001")
FirstFrame(viewer) == IF viewer = "part001" THEN "undefined" ELSE "generator"

\* the pages: src/js/app.js lines 212-231 start the "first" revision on their
\* own, src/index.html starts a KnobGenerator that /js/app.js exports together
\* with setupUI and setupEventListeners of /js/ui.js
PageConfigs ==
    {<<"first", "none">>, <<"inline", "none">>, <<"second", "part003">>,
     <<"part001", "part003">>, <<"second", "ui.js">>, <<"part001", "ui.js">>}

InitPage ==
    /\ \E c \in PageConfigs : page = Page(c[1], c[2])
    /\ variant = IF page.viewer = "inline" THEN "inline" ELSE "csg"
    /\ params = DefaultParams
    /\ pc = "page"
    /\ build = NoBuild
    /\ knobMesh = Null
    /\ scene = {}

\* the listeners of the seven parameter controls after start-up: the
\* viewer's own setupEventListeners runs in the constructor, when no control
\* is in the document yet, and skips every control it does not find;
\* setupEventListeners(app) of src/unnamed/part_003 runs after setupUI() with
\* the generator; setupUI() of src/js/ui.js runs its setupEventListeners(app)
\* with the argument src/index.html gives it, which is none
ListenersAfterStartup(ui) ==
    [k \in ParamKeys |->
        CASE ui = "part003" -> "app"
          [] ui = "ui.js" -> "undefined"
          [] OTHER -> "none"]

\* what a click on the export button runs after start-up: the listener of
\* the viewer's own setupEventListeners (the button is in src/index.html),
\* app.exportSTL() through src/unnamed/part_003, nothing through src/js/ui.js
ExportListenerAfterStartup(ui) ==
    CASE ui = "part003" -> "exportSTL"
      [] ui = "ui.js" -> "none"
      [] OTHER -> "scene"

\* the DOMContentLoaded handler of the page: new KnobGenerator() (init with
\* setupLighting, the first updateKnob and the first animate), then setupUI
\* and setupEventListeners.  src/js/ui.js does not export the
\* setupEventListeners that src/index.html imports: the browser then refuses
\* to run the script (not linked), or a bundler leaves the binding undefined
\* and the handler ends at its call.
DOMContentLoaded(linked, outcome) ==
    /\ pc = "page"
    /\ page.phase = "loading"
    /\ CASE page.ui = "ui.js" /\ ~linked ->
                /\ page' = [page EXCEPT
                               !.phase = "failed",
                               !.last = Handler("DOMContentLoaded", "not linked", {})]
                /\ UNCHANGED <<knobMesh, scene, build>>
         [] (page.ui # "ui.js" \/ linked) /\ outcome = "threw" ->
                /\ page' = [page EXCEPT
                               !.phase = "failed",
                               !.last = Handler("DOMContentLoaded", "threw", {})]
                /\ updateKnob(DefaultParams, Null, Fixtures, outcome)
         [] OTHER ->
                /\ page' = [page EXCEPT
                               !.phase = "ready",
                               !.controls = (page.ui # "none"),
                               !.listeners = ListenersAfterStartup(page.ui),
                               !.exportListener = ExportListenerAfterStartup(page.ui),
                               !.frame = FirstFrame(page.viewer),
                               !.last = Handler("DOMContentLoaded",
                                                IF page.ui = "ui.js" THEN "threw"
                                                ELSE "done", {})]
                /\ updateKnob(DefaultParams, Null, Fixtures, outcome)
    /\ UNCHANGED <<variant, params, pc>>

\* KnobGenerator.updateParams(newParams): the merge, then updateKnob
updateParams(newParams, outcome) ==
    /\ Len(page.calls) < MaxCalls
    /\ params' = ObjectAssign(params, newParams)
    /\ updateKnob(params', knobMesh, scene, outcome)
    /\ page' = [page EXCEPT !.calls = Append(page.calls, newParams),
                            !.last = Handler("updateParams", outcome, {})]
    /\ UNCHANGED <<variant, pc>>

\* a script that holds the generator calls its updateParams; on the page of
\* src/index.html only the listeners of the controls hold it
CallUpdateParams(newParams, outcome) ==
    /\ pc = "page"
    /\ page.phase = "ready"
    /\ page.viewer = "first"
    /\ updateParams(newParams, outcome)

\* the user moves a slider, picks an option or ticks a checkbox: the
\* listener of the control, if it has one, passes the parsed value to
\* app.updateParams, which is a TypeError when app is undefined
ControlInput(key, value, outcome) ==
    /\ pc = "page"
    /\ page.phase = "ready"
    /\ page.controls
    /\ CASE page.listeners[key] = "none" ->
                /\ page' = [page EXCEPT !.last = Handler("input", "no listener", {})]
                /\ UNCHANGED <<variant, params, pc, build, knobMesh, scene>>
         [] page.listeners[key] = "undefined" ->
                /\ page' = [page EXCEPT !.last = Handler("input", "threw", {})]
                /\ UNCHANGED <<variant, params, pc, build, knobMesh, scene>>
         [] OTHER -> updateParams(ListenerArgument(key, value), outcome)

\* a click on the export button: the "first" and "inline" revisions hand
\* this.scene to STLExporter.parse, exportSTL() of the "second" and "part001"
\* revisions hands it this.knobMesh, which parse cannot traverse when it is
\* null
ClickExport ==
    /\ pc = "page"
    /\ page.phase = "ready"
    /\ page.exportListener # "none"
    /\ page' = [page EXCEPT !.last =
                    CASE page.exportListener = "scene" ->
                            Handler("exportSTL", "done", scene)
                      [] page.exportListener # "scene" /\ knobMesh = Null ->
                            Handler("exportSTL", "threw", {})
                      [] OTHER -> Handler("exportSTL", "done", {knobMesh})]
    /\ UNCHANGED <<variant, params, pc, build, knobMesh, scene>>

\* the browser runs the requested frame callback: animate with a "this"
\* requests the next frame with the same "this", updates the controls and
\* renders; animate without "this" fails at "this.animate" before it has
\* requested anything
AnimationFrame ==
    /\ pc = "page"
    /\ page.frame \in {"generator", "undefined"}
    /\ page' = IF page.frame = "undefined"
               THEN [page EXCEPT !.frame = "stopped",
                                 !.last = Handler("animate", "threw", {})]
               ELSE [page EXCEPT !.last = Handler("animate", "rendered", {})]
    /\ UNCHANGED <<variant, params, pc, build, knobMesh, scene>>

NextPage ==
    \/ \E linked \in BOOLEAN : \E outcome \in Outcomes(variant) :
           DOMContentLoaded(linked, outcome)
    \/ \E newParams \in CallArguments : \E outcome \in Outcomes(variant) :
           CallUpdateParams(newParams, outcome)
    \/ \E key \in ParamKeys : \E value \in ControlValues(key) :
           \E outcome \in Outcomes(variant) : ControlInput(key, value, outcome)
    \/ ClickExport
    \/ AnimationFrame

SpecPage == InitPage /\ [][NextPage]_vars

\* the knob meshes in the scene
KnobMeshes == {m \in scene : m.type = "Mesh"}

\* C25: whatever updateKnob calls have run, the scene holds at most one knob
\* mesh, this.knobMesh is non-null exactly when it is in the scene, and when
\* the last updateKnob built a geometry the one knob mesh of the scene is
\* this.knobMesh.
C25_OneKnobMesh ==
    (pc = "page" /\ page.viewer \in {"first", "second", "part001"}) =>
        /\ Cardinality(KnobMeshes) <= 1
        /\ (knobMesh # Null) <=> (knobMesh \in scene)
        /\ build.status = "returned" => KnobMeshes = {knobMesh}

\* the calls of updateParams so far that supplied the key k
CallsWith(k) == {i \in 1..Len(page.calls) : k \in DOMAIN page.calls[i]}

\* C26: whatever calls of updateParams have run, every key of app.params has
\* the value of the last call that supplied it, or its default when no call
\* did, and a knob mesh in the scene is the mesh of the geometry that
\* createKnobGeometry returns for the current app.params.
C26_ParamsCurrent ==
    (pc = "page" /\ page.phase = "ready" /\ page.viewer # "inline") =>
        /\ \A k \in ParamKeys :
               params[k] = IF CallsWith(k) = {} THEN DefaultParams[k]
                           ELSE page.calls[MaxOf(CallsWith(k))][k]
        /\ \A m \in KnobMeshes : m = Mesh(ResultOf(variant, params).geo)

\* two calls with different keys have run: the key of the first call has
\* kept its new value, and the knob in the scene is built from the result
C26_Witness ==
    /\ pc = "page"
    /\ page.viewer # "inline"
    /\ Len(page.calls) = 2
    /\ DOMAIN page.calls[1] \cap DOMAIN page.calls[2] = {}
    /\ \A k \in DOMAIN page.calls[1] :
           params[k] = page.calls[1][k] /\ params[k] # DefaultParams[k]
    /\ \A k \in DOMAIN page.calls[2] :
           params[k] = page.calls[2][k] /\ params[k] # DefaultParams[k]
    /\ KnobMeshes = {Mesh(ResultOf(variant, params).geo)}

\* C27: a step in which updateKnob of the "second" or "part001" revision runs
\* and createKnobGeometry fails leaves the scene and this.knobMesh as they
\* were, so the knob shown before stays in the scene and can be exported.
C27_FailureKeepsKnob ==
    [][(/\ pc = "page"
        /\ page.viewer \in {"second", "part001"}
        /\ page'.last = Handler("updateParams", "threw", {}))
          => (scene' = scene /\ knobMesh' = knobMesh)]_vars

\* C28: when start-up has run to its end, the seven parameter controls are in
\* the document and each of them has a listener that holds the generator, so
\* that a change of the control reaches updateParams.
C28_ListenersAttached ==
    (pc = "page" /\ page.phase = "ready" /\ page.viewer # "inline") =>
        /\ page.controls
        /\ \A k \in ParamKeys : page.listeners[k] = "app"

\* C29: once a KnobGenerator of the "second" or "part001" revision has been
\* constructed, a frame callback is requested at all times and it will run
\* animate with the generator as "this": the animation loop has not stopped
\* and its next frame will not stop it.
C29_LoopNeverStops ==
    (pc = "page" /\ page.phase = "ready" /\ page.viewer \in {"second", "part001"}) =>
        page.frame = "generator"

\* C30: when the export has just handed data to STLExporter.parse, the data
\* is the one mesh of the geometry built from the current app.params, a
\* single solid without child meshes, and nothing else of the scene.
C30_ExportsKnobOnly ==
    (pc = "page" /\ page.last.handler = "exportSTL" /\ page.last.outcome = "done") =>
        /\ page.last.data = {Mesh(ResultOf(variant, params).geo)}
        /\ \A m \in page.last.data : m.geo.kind # "add"
====
